---------------------------- MODULE Spec2Model ----------------------------
(***************************************************************************)
(* Conway's Game of Life with a pygame main loop (src/game.py).            *)
(*                                                                         *)
(* The module models                                                       *)
(*   - GameLogic.next_generation / get_neighbor_count (pure functions),    *)
(*   - GameStateSaver / GameStateLoader (pickle to a file and back),       *)
(*   - EventHandler (one step per event of the for loop),                  *)
(*   - SimulationRunner.run_simulation (the frame loop).                   *)
(*                                                                         *)
(* Three specifications share the variables:                               *)
(*   Spec        the running program, from GameOfLife.__init__ on;         *)
(*   SpecSingleton  repeated calls of GameOfLife(...) with calls of the    *)
(*               instance's methods in between;                            *)
(*   SpecLogic   one call of GameLogic.next_generation on every grid of    *)
(*               every shape up to MaxCols x MaxRows and on the sparse     *)
(*               grids (one 2x2 block, one single live cell) of every      *)
(*               shape up to MaxPat x MaxPat.                              *)
(***************************************************************************)
EXTENDS Integers, Sequences, FiniteSets

VARIABLES
    width, height,          \* self.width, self.height (pixels)
    n_cells_x, n_cells_y,   \* self.n_cells_x, self.n_cells_y
    tick_interval,          \* self.tick_interval * 1000, in clock units
    game_state,             \* self.game_state: [shape, cells]
    new_state,              \* the array GameLogic.next_generation returned last
    paused,                 \* self.paused
    last_tick_time,         \* self.last_tick_time
    now,                    \* pygame.time.get_ticks()
    running,                \* run_simulation's local
    showing_instructions,   \* run_simulation's local
    pc,                     \* position in run_simulation
    pending,                \* events of the current pygame.event.get() not yet iterated
    event,                  \* type and key of the loop variable of the running for loop
    exc,                    \* the uncaught exception, if any
    saved_file,             \* the file saved_game_state.pkl
    hist_saved,             \* history: the grid at the last K_s of this run
    hist_quit,              \* history: a QUIT event was iterated in this frame
    instance,               \* GameOfLife._instance: 0 for None, else the object
    initialized,            \* _instance._initialized
    call                    \* the last call GameOfLife(...): its number, its
                            \* arguments, the object it returned

\* what only GameOfLife.__new__ and GameOfLife.__init__ write
cfgvars == <<width, height, n_cells_x, n_cells_y, tick_interval,
             instance, initialized, call>>

vars == <<width, height, n_cells_x, n_cells_y, tick_interval,
          instance, initialized, call, game_state,
          new_state, paused, last_tick_time, now, running,
          showing_instructions, pc, pending, event, exc, saved_file,
          hist_saved, hist_quit>>

---------------------------------------------------------------------------
(* Bounds of the model *)

\* events one pygame.event.get() returns, at most
MaxBatch == 2

\* the clock stops being advanced here
MaxTime == 3

\* clock units one frame takes, at most (clock.tick)
MaxDelta == 2

\* SpecLogic: every grid of the shapes up to MaxCols x MaxRows
MaxCols == 3

MaxRows == 3

\* SpecLogic: the sparse grids of the shapes up to MaxPat x MaxPat
MaxPat == 5

\* the button's size and bottom margin, scaled to the model's window
button_width == 1

button_height == 1

button_margin == 1

\* The configurations of Spec: the arguments of GameOfLife(...), scaled
\* down. 3 // 2 = 1 pixel per cell, so pixel 2 maps to cell index 2, as
\* pixel 880 maps to cell index 40 in the shipped 900 // 40 = 22.
Configs ==
    { [width |-> 3, height |-> 3, n_cells_x |-> 2, n_cells_y |-> 2,
       tick_interval |-> 2] }

\* SpecSingleton: calls of GameOfLife(...), at most
MaxCalls == 3

\* SpecSingleton: the arguments a call of GameOfLife(...) is given
Arguments ==
    Configs \cup
    { [width |-> 3, height |-> 3, n_cells_x |-> 1, n_cells_y |-> 2,
       tick_interval |-> 1] }

\* Shapes of a saved_game_state.pkl left behind by an earlier run.
EarlierShapes == { <<1, 2>> }

---------------------------------------------------------------------------
(* Arrays *)

Index(c, r) == (0 .. c - 1) \X (0 .. r - 1)

Array(c, r, f) == [shape |-> <<c, r>>, cells |-> f]

AllArrays(c, r) == { Array(c, r, f) : f \in [Index(c, r) -> {0, 1}] }

Zeros(c, r) == Array(c, r, [p \in Index(c, r) |-> 0])

InShape(gs, x, y) ==
    /\ x \in 0 .. gs.shape[1] - 1
    /\ y \in 0 .. gs.shape[2] - 1

\* new_state outside a call of GameLogic.next_generation
NoArray == [shape |-> <<0, 0>>, cells |-> <<>>]

---------------------------------------------------------------------------
(* GameLogic *)

\* the offsets with the cell itself among them
Offsets_with_self ==
    << <<-1, -1>>, <<-1, 0>>, <<-1, 1>>, <<0, -1>>, <<0, 0>>, <<0, 1>>,
       <<1, -1>>, <<1, 0>>, <<1, 1>> >>

\* the (dx, dy) of the two nested loops over [-1, 0, 1], (0, 0) skipped
Offsets ==
    << <<-1, -1>>, <<-1, 0>>, <<-1, 1>>, <<0, -1>>, <<0, 1>>,
       <<1, -1>>, <<1, 0>>, <<1, 1>> >>

\* what get_neighbor_count and next_generation yield when numpy raises
IndexError == -1

\* count_from on a bounded board: a neighbour beyond an edge is skipped
\* instead of being wrapped to the opposite edge
RECURSIVE count_from_bounded(_, _, _, _, _, _, _)
count_from_bounded(gs, x, y, ncx, ncy, i, acc) ==
    IF i > Len(Offsets) THEN acc
    ELSE LET neighbor_x == x + Offsets[i][1]
             neighbor_y == y + Offsets[i][2]
         IN  IF ~InShape(gs, neighbor_x, neighbor_y)
             THEN count_from_bounded(gs, x, y, ncx, ncy, i + 1, acc)
             ELSE count_from_bounded(gs, x, y, ncx, ncy, i + 1,
                                     acc + gs.cells[<<neighbor_x, neighbor_y>>])

\* the loop body of get_neighbor_count from offset i on, acc the running sum
RECURSIVE count_from(_, _, _, _, _, _, _)
count_from(gs, x, y, ncx, ncy, i, acc) ==
    IF i > Len(Offsets) THEN acc
    ELSE LET neighbor_x == (x + Offsets[i][1]) % ncx
             neighbor_y == (y + Offsets[i][2]) % ncy
         IN  IF ~InShape(gs, neighbor_x, neighbor_y) THEN IndexError
             ELSE count_from(gs, x, y, ncx, ncy, i + 1,
                             acc + gs.cells[<<neighbor_x, neighbor_y>>])

get_neighbor_count(gs, x, y, ncx, ncy) == count_from(gs, x, y, ncx, ncy, 1, 0)

\* rule with the overcrowding test off by one (>= 3 for > 3)
rule_crowded_at_3(old, n_neighbors, copied) ==
    IF old = 1 /\ (n_neighbors < 2 \/ n_neighbors >= 3) THEN 0
    ELSE IF old = 0 /\ n_neighbors = 3 THEN 1
    ELSE copied

\* rule with the birth test on 2 neighbours instead of 3
rule_birth_at_2(old, n_neighbors, copied) ==
    IF old = 1 /\ (n_neighbors < 2 \/ n_neighbors > 3) THEN 0
    ELSE IF old = 0 /\ n_neighbors = 2 THEN 1
    ELSE copied

\* rule without the isolation test (n_neighbors < 2)
rule_lonely_survives(old, n_neighbors, copied) ==
    IF old = 1 /\ n_neighbors > 3 THEN 0
    ELSE IF old = 0 /\ n_neighbors = 3 THEN 1
    ELSE copied

\* the rule of next_generation for one cell: the value new_state[x, y] gets
rule(old, n_neighbors, copied) ==
    IF old = 1 /\ (n_neighbors < 2 \/ n_neighbors > 3) THEN 0
    ELSE IF old = 0 /\ n_neighbors = 3 THEN 1
    ELSE copied

\* generation_from updating in place: the counts are read from new_state
RECURSIVE generation_in_place(_, _, _, _, _)
generation_in_place(gs, new, ncx, ncy, k) ==
    IF k >= ncx * ncy THEN [err |-> FALSE, state |-> new]
    ELSE LET x == k % ncx
             y == k \div ncx
             n_neighbors == get_neighbor_count(new, x, y, ncx, ncy)
         IN  IF n_neighbors = IndexError \/ ~InShape(new, x, y)
             THEN [err |-> TRUE, state |-> gs]
             ELSE generation_in_place(gs,
                      [new EXCEPT !.cells[<<x, y>>] =
                          rule(new.cells[<<x, y>>], n_neighbors, @)],
                      ncx, ncy, k + 1)

\* the two nested loops of next_generation from cell k on (y outer, x inner);
\* new is new_state so far, gs the array the counts are read from
RECURSIVE generation_from(_, _, _, _, _)
generation_from(gs, new, ncx, ncy, k) ==
    IF k >= ncx * ncy THEN [err |-> FALSE, state |-> new]
    ELSE LET x == k % ncx
             y == k \div ncx
             n_neighbors == get_neighbor_count(gs, x, y, ncx, ncy)
         IN  IF n_neighbors = IndexError \/ ~InShape(gs, x, y)
             THEN [err |-> TRUE, state |-> gs]
             ELSE generation_from(gs,
                      [new EXCEPT !.cells[<<x, y>>] =
                          rule(gs.cells[<<x, y>>], n_neighbors, @)],
                      ncx, ncy, k + 1)

\* GameLogic.next_generation: [err, state]; new_state starts as np.copy
next_generation(gs, ncx, ncy) == generation_from(gs, gs, ncx, ncy, 0)

---------------------------------------------------------------------------
(* GameStateSaver, GameStateLoader: pickle of a numpy array *)

\* GameOfLife(...) has not been called
NoCall == [n |-> 0, args |-> <<>>, result |-> 0]

NoFile == [exists |-> FALSE, shape |-> <<0, 0>>, bytes |-> <<>>]

\* save_game_state writing the cells in Fortran order (the first index
\* varies fastest), which load_game_state does not expect
save_fortran_order(gs) ==
    [exists |-> TRUE,
     shape  |-> gs.shape,
     bytes  |-> [i \in 1 .. gs.shape[1] * gs.shape[2] |->
                   gs.cells[<<(i - 1) % gs.shape[1], (i - 1) \div gs.shape[1]>>]]]

\* pickle.dump of an array: its shape and its cells in C order (the last
\* index varies fastest)
save_game_state(gs) ==
    [exists |-> TRUE,
     shape  |-> gs.shape,
     bytes  |-> [i \in 1 .. gs.shape[1] * gs.shape[2] |->
                   gs.cells[<<(i - 1) \div gs.shape[2], (i - 1) % gs.shape[2]>>]]]

\* pickle.load of such a file
load_game_state(file) ==
    Array(file.shape[1], file.shape[2],
          [p \in Index(file.shape[1], file.shape[2]) |->
              file.bytes[p[1] * file.shape[2] + p[2] + 1]])

---------------------------------------------------------------------------
(* Events: pygame.event.get() *)

Keys == {"K_SPACE", "K_s", "K_l", "K_RETURN", "K_a"}

Pixels == (0 .. width - 1) \X (0 .. height - 1)

\* event.type and event.key; event.pos is an argument of the handlers
Ev(t, k) == [type |-> t, key |-> k]

\* no for loop over events is running
NoEvent == Ev("NOEVENT", "none")

QuitEv == Ev("QUIT", "none")

KeyDown(k) == Ev("KEYDOWN", k)

MouseDown == Ev("MOUSEBUTTONDOWN", "none")

MouseUp == Ev("MOUSEBUTTONUP", "none")

\* any event type the handlers do not look at
MotionEv == Ev("MOUSEMOTION", "none")

Events == {QuitEv, MotionEv, MouseDown, MouseUp} \cup { KeyDown(k) : k \in Keys }

---------------------------------------------------------------------------
(* GameOfLife.__init__ geometry *)

cell_width == width \div n_cells_x

cell_height == height \div n_cells_y

button_x == (width - button_width) \div 2

button_y == height - button_height - button_margin

\* pygame.Rect(button_x, button_y, button_width, button_height).collidepoint
collidepoint(pos) ==
    /\ button_x <= pos[1] /\ pos[1] < button_x + button_width
    /\ button_y <= pos[2] /\ pos[2] < button_y + button_height

\* bool(not v) stored into the integer array
Not(v) == IF v = 0 THEN 1 ELSE 0

---------------------------------------------------------------------------
(* The program: GameOfLife.__init__, then run_simulation up to its first   *)
(* pygame.event.get()                                                      *)

Init ==
    /\ \E c \in Configs :
          /\ width = c.width /\ height = c.height
          /\ n_cells_x = c.n_cells_x /\ n_cells_y = c.n_cells_y
          /\ tick_interval = c.tick_interval
          /\ call = [n |-> 1, args |-> c, result |-> 1]
    /\ instance = 1
    /\ initialized = TRUE
    /\ game_state \in AllArrays(n_cells_x, n_cells_y)
    /\ new_state = NoArray
    /\ paused = FALSE
    /\ now = 0
    /\ last_tick_time = 0
    /\ running = TRUE
    /\ showing_instructions = TRUE
    /\ pc = "instr"
    /\ pending \in 0 .. MaxBatch
    /\ event = NoEvent
    /\ exc = "none"
    /\ saved_file \in {NoFile} \cup
           { save_game_state(Zeros(sh[1], sh[2])) : sh \in EarlierShapes }
    /\ hist_saved = {}
    /\ hist_quit = FALSE

\* an exception leaves run_simulation: nothing else changes
Raise(e) ==
    /\ pc' = "crashed"
    /\ exc' = e

\* one iteration of the for loop of the instructions branch (lines 260-262)
InstrEvent(ev) ==
    /\ pc = "instr" /\ pending > 0
    /\ event' = ev
    /\ pending' = pending - 1
    /\ showing_instructions' =
          IF ev.type = "KEYDOWN" /\ ev.key = "K_RETURN" THEN FALSE
          ELSE showing_instructions
    /\ hist_quit' = (hist_quit \/ ev = QuitEv)
    /\ UNCHANGED <<cfgvars, game_state, new_state, paused, last_tick_time,
                   now, running, pc, exc, saved_file, hist_saved>>

\* the for loop of the instructions branch is over: handle_events is called
\* and polls again (lines 269, 215)
InstrEnd ==
    /\ pc = "instr" /\ pending = 0
    /\ pc' = "events"
    /\ pending' \in 0 .. MaxBatch
    /\ event' = NoEvent
    /\ UNCHANGED <<cfgvars, game_state, new_state, paused, last_tick_time,
                   now, running, showing_instructions, exc, saved_file,
                   hist_saved, hist_quit>>

\* handle_events, event.type == QUIT: return False, the rest is not iterated
EvQuit ==
    /\ pc = "events" /\ pending > 0
    /\ event' = QuitEv
    /\ pending' = pending - 1
    /\ running' = FALSE
    /\ pc' = "tick"
    /\ hist_quit' = TRUE
    /\ UNCHANGED <<cfgvars, game_state, new_state, paused, last_tick_time,
                   now, showing_instructions, exc, saved_file, hist_saved>>

\* handle_mouse_click with the two indices swapped: game_state[y, x]
handle_mouse_click_swapped(pos) ==
    LET x == pos[2] \div cell_height
        y == pos[1] \div cell_width
    IN  IF InShape(game_state, x, y)
        THEN /\ game_state' = [game_state EXCEPT !.cells[<<x, y>>] = Not(@)]
             /\ UNCHANGED <<pc, exc>>
        ELSE /\ Raise("IndexError")
             /\ UNCHANGED game_state

\* EventHandler.handle_mouse_click
handle_mouse_click(pos) ==
    LET x == pos[1] \div cell_width
        y == pos[2] \div cell_height
    IN  IF InShape(game_state, x, y)
        THEN /\ game_state' = [game_state EXCEPT !.cells[<<x, y>>] = Not(@)]
             /\ UNCHANGED <<pc, exc>>
        ELSE /\ Raise("IndexError")
             /\ UNCHANGED game_state

\* handle_events, event.type == MOUSEBUTTONDOWN
EvMouseDown(pos) ==
    /\ pc = "events" /\ pending > 0
    /\ event' = MouseDown
    /\ pending' = pending - 1
    /\ handle_mouse_click(pos)
    /\ UNCHANGED <<cfgvars, new_state, paused, last_tick_time, now, running,
                   showing_instructions, saved_file, hist_saved, hist_quit>>

\* GameOfLife.next_generation: self.game_state = GameLogic.next_generation(...)
self_next_generation ==
    LET r == next_generation(game_state, n_cells_x, n_cells_y)
    IN  IF r.err
        THEN /\ Raise("IndexError")
             /\ UNCHANGED game_state
        ELSE /\ game_state' = r.state
             /\ UNCHANGED <<pc, exc>>

\* EventHandler.handle_button_click
handle_button_click(pos) ==
    IF collidepoint(pos)
    THEN self_next_generation
    ELSE UNCHANGED <<game_state, pc, exc>>

\* handle_events, event.type == MOUSEBUTTONUP
EvMouseUp(pos) ==
    /\ pc = "events" /\ pending > 0
    /\ event' = MouseUp
    /\ pending' = pending - 1
    /\ handle_button_click(pos)
    /\ UNCHANGED <<cfgvars, new_state, paused, last_tick_time, now, running,
                   showing_instructions, saved_file, hist_saved, hist_quit>>

\* handle_key_press with K_SPACE setting the flag instead of flipping it
handle_key_press_sets(key) ==
    IF key = "K_SPACE"
    THEN /\ paused' = TRUE
         /\ UNCHANGED <<game_state, saved_file, hist_saved, pc, exc>>
    ELSE IF key = "K_s"
    THEN /\ saved_file' = save_game_state(game_state)
         /\ hist_saved' = {game_state}
         /\ UNCHANGED <<game_state, paused, pc, exc>>
    ELSE IF key = "K_l"
    THEN IF saved_file.exists
         THEN /\ game_state' = load_game_state(saved_file)
              /\ UNCHANGED <<paused, saved_file, hist_saved, pc, exc>>
         ELSE /\ Raise("FileNotFoundError")
              /\ UNCHANGED <<game_state, paused, saved_file, hist_saved>>
    ELSE UNCHANGED <<game_state, paused, saved_file, hist_saved, pc, exc>>

\* EventHandler.handle_key_press
handle_key_press(key) ==
    IF key = "K_SPACE"
    THEN /\ paused' = ~paused
         /\ UNCHANGED <<game_state, saved_file, hist_saved, pc, exc>>
    ELSE IF key = "K_s"
    THEN /\ saved_file' = save_game_state(game_state)
         /\ hist_saved' = {game_state}
         /\ UNCHANGED <<game_state, paused, pc, exc>>
    ELSE IF key = "K_l"
    THEN IF saved_file.exists
         THEN /\ game_state' = load_game_state(saved_file)
              /\ UNCHANGED <<paused, saved_file, hist_saved, pc, exc>>
         ELSE /\ Raise("FileNotFoundError")
              /\ UNCHANGED <<game_state, paused, saved_file, hist_saved>>
    ELSE UNCHANGED <<game_state, paused, saved_file, hist_saved, pc, exc>>

\* handle_events, event.type == KEYDOWN
EvKeyDown(key) ==
    /\ pc = "events" /\ pending > 0
    /\ event' = KeyDown(key)
    /\ pending' = pending - 1
    /\ handle_key_press(key)
    /\ UNCHANGED <<cfgvars, new_state, last_tick_time, now, running,
                   showing_instructions, hist_quit>>

\* handle_events, any other event type: no branch is taken
EvOther ==
    /\ pc = "events" /\ pending > 0
    /\ event' = MotionEv
    /\ pending' = pending - 1
    /\ UNCHANGED <<cfgvars, game_state, new_state, paused, last_tick_time,
                   now, running, showing_instructions, pc, exc, saved_file,
                   hist_saved, hist_quit>>

\* handle_events: the for loop is over, return True (lines 224, 269)
EventsEnd ==
    /\ pc = "events" /\ pending = 0
    /\ running' = TRUE
    /\ pc' = "tick"
    /\ event' = NoEvent
    /\ UNCHANGED <<cfgvars, game_state, new_state, paused, last_tick_time,
                   now, showing_instructions, pending, exc, saved_file,
                   hist_saved, hist_quit>>

\* tick_due without the test of the paused flag
tick_due_while_paused == now - last_tick_time > tick_interval

\* the condition of the automatic tick (lines 271-273)
tick_due == ~paused /\ now - last_tick_time > tick_interval

\* clock.tick, the test of the while loop, and the next frame up to its
\* pygame.event.get() (lines 277, 254-260, 263-269, 215)
next_frame ==
    /\ \E d \in 0 .. MaxDelta : now + d <= MaxTime /\ now' = now + d
    /\ IF running
       THEN /\ pc' = IF showing_instructions THEN "instr" ELSE "events"
            /\ pending' \in 0 .. MaxBatch
            /\ hist_quit' = FALSE
       ELSE /\ pc' = "done"
            /\ UNCHANGED <<pending, hist_quit>>
    /\ UNCHANGED exc

\* the rest of the frame after handle_events (lines 271-277)
Tick ==
    /\ pc = "tick"
    /\ IF tick_due
       THEN LET r == next_generation(game_state, n_cells_x, n_cells_y)
            IN  IF r.err
                THEN /\ Raise("IndexError")
                     /\ UNCHANGED <<game_state, last_tick_time, now, pending,
                                    hist_quit>>
                ELSE /\ game_state' = r.state
                     /\ last_tick_time' = now
                     /\ next_frame
       ELSE /\ UNCHANGED <<game_state, last_tick_time>>
            /\ next_frame
    /\ UNCHANGED <<cfgvars, new_state, paused, running, showing_instructions,
                   event, saved_file, hist_saved>>

Next ==
    \/ \E ev \in Events : InstrEvent(ev)
    \/ InstrEnd
    \/ EvQuit
    \/ \E pos \in Pixels : EvMouseDown(pos)
    \/ \E pos \in Pixels : EvMouseUp(pos)
    \/ \E key \in Keys : EvKeyDown(key)
    \/ EvOther
    \/ EventsEnd
    \/ Tick

Spec == Init /\ [][Next]_vars

---------------------------------------------------------------------------
(* GameOfLife.__new__ and __init__: calls of GameOfLife(...) from the main *)
(* module, with calls of the instance's methods in between (the frame loop *)
(* of run_simulation / handle_events is the specification Spec)            *)

InitSingleton ==
    /\ instance = 0
    /\ initialized = FALSE
    /\ call = NoCall
    /\ width = 0 /\ height = 0
    /\ n_cells_x = 0 /\ n_cells_y = 0
    /\ tick_interval = 0
    /\ game_state = NoArray
    /\ new_state = NoArray
    /\ paused = FALSE
    /\ now = 0
    /\ last_tick_time = 0
    /\ running = FALSE
    /\ showing_instructions = FALSE
    /\ pc = "main"
    /\ pending = 0
    /\ event = NoEvent
    /\ exc = "none"
    /\ saved_file = NoFile
    /\ hist_saved = {}
    /\ hist_quit = FALSE

\* the body of __init__ below its test of _initialized (lines 56-92)
init_body(args) ==
    /\ initialized' = TRUE
    /\ width' = args.width /\ height' = args.height
    /\ n_cells_x' = args.n_cells_x /\ n_cells_y' = args.n_cells_y
    /\ paused' = FALSE
    /\ tick_interval' = args.tick_interval
    /\ last_tick_time' = now
    /\ game_state' \in AllArrays(args.n_cells_x, args.n_cells_y)

\* GameOfLife(...) with an __init__ that does not test _initialized
Construct_reinitialises(args) ==
    /\ pc = "main"
    /\ call.n < MaxCalls
    /\ instance' = 1
    /\ init_body(args)
    /\ call' = [n |-> call.n + 1, args |-> args, result |-> instance']
    /\ UNCHANGED <<new_state, now, running, showing_instructions, pc,
                   pending, event, exc, saved_file, hist_saved, hist_quit>>

\* GameOfLife(width, height, n_cells_x, n_cells_y, tick_interval=...):
\* __new__ (lines 47-51), then __init__ on the object __new__ returned
Construct(args) ==
    /\ pc = "main"
    /\ call.n < MaxCalls
    /\ instance' = IF instance = 0 THEN 1 ELSE instance
    /\ IF instance # 0 /\ initialized
       THEN UNCHANGED <<initialized, width, height, n_cells_x, n_cells_y,
                        paused, tick_interval, last_tick_time, game_state>>
       ELSE init_body(args)
    /\ call' = [n |-> call.n + 1, args |-> args, result |-> instance']
    /\ UNCHANGED <<new_state, now, running, showing_instructions, pc,
                   pending, event, exc, saved_file, hist_saved, hist_quit>>

\* game0.handle_mouse_click(pos)
CallMouseClick(pos) ==
    /\ pc = "main" /\ initialized
    /\ handle_mouse_click(pos)
    /\ UNCHANGED <<cfgvars, new_state, paused, last_tick_time, now, running,
                   showing_instructions, pending, event, saved_file,
                   hist_saved, hist_quit>>

\* game0.handle_key_press(key)
CallKeyPress(key) ==
    /\ pc = "main" /\ initialized
    /\ handle_key_press(key)
    /\ UNCHANGED <<cfgvars, new_state, last_tick_time, now, running,
                   showing_instructions, pending, event, hist_quit>>

\* game0.initialize_grid(): a fresh random grid of the configured shape
CallInitializeGrid ==
    /\ pc = "main" /\ initialized
    /\ game_state' \in AllArrays(n_cells_x, n_cells_y)
    /\ UNCHANGED <<cfgvars, new_state, paused, last_tick_time, now, running,
                   showing_instructions, pc, pending, event, exc, saved_file,
                   hist_saved, hist_quit>>

\* EventHandler.handle_button_click(game0, pos)
CallButtonClick(pos) ==
    /\ pc = "main" /\ initialized
    /\ handle_button_click(pos)
    /\ UNCHANGED <<cfgvars, new_state, paused, last_tick_time, now, running,
                   showing_instructions, pending, event, saved_file,
                   hist_saved, hist_quit>>

\* game0.next_generation()
CallNextGeneration ==
    /\ pc = "main" /\ initialized
    /\ self_next_generation
    /\ UNCHANGED <<cfgvars, new_state, paused, last_tick_time, now, running,
                   showing_instructions, pending, event, saved_file,
                   hist_saved, hist_quit>>

\* time passes: pygame.time.get_ticks() counts from pygame.init() on
ClockAdvance ==
    /\ pc = "main" /\ initialized
    /\ \E d \in 1 .. MaxDelta : now + d <= MaxTime /\ now' = now + d
    /\ UNCHANGED <<cfgvars, game_state, new_state, paused, last_tick_time,
                   running, showing_instructions, pc, pending, event, exc,
                   saved_file, hist_saved, hist_quit>>

NextSingleton ==
    \/ \E args \in Arguments : Construct(args)
    \/ \E pos \in Pixels : CallMouseClick(pos)
    \/ \E key \in Keys : CallKeyPress(key)
    \/ CallInitializeGrid
    \/ \E pos \in Pixels : CallButtonClick(pos)
    \/ CallNextGeneration
    \/ ClockAdvance

SpecSingleton == InitSingleton /\ [][NextSingleton]_vars

---------------------------------------------------------------------------
(* GameLogic.next_generation on its own: one call on each input            *)

\* the array whose live cells are exactly the set live
WithLive(c, r, live) ==
    Array(c, r, [p \in Index(c, r) |-> IF p \in live THEN 1 ELSE 0])

Live(gs) == { p \in DOMAIN gs.cells : gs.cells[p] = 1 }

\* the 2x2 block whose corner is (x0, y0), wrapped around the edges
BlockCells(c, r, x0, y0) ==
    { <<(x0 + i) % c, (y0 + j) % r>> : i \in {0, 1}, j \in {0, 1} }

Blocks(c, r) ==
    IF c >= 2 /\ r >= 2
    THEN { WithLive(c, r, BlockCells(c, r, p[1], p[2])) : p \in Index(c, r) }
    ELSE {}

Singles(c, r) == { WithLive(c, r, {p}) : p \in Index(c, r) }

\* every array of the small shapes, the sparse arrays of every shape
Inputs(c, r) ==
    (IF c <= MaxCols /\ r <= MaxRows THEN AllArrays(c, r) ELSE {})
        \cup Blocks(c, r) \cup Singles(c, r)

InitLogic ==
    /\ n_cells_x \in 1 .. MaxPat
    /\ n_cells_y \in 1 .. MaxPat
    /\ width = n_cells_x /\ height = n_cells_y
    /\ tick_interval = 1
    /\ instance = 0
    /\ initialized = FALSE
    /\ call = NoCall
    /\ game_state \in Inputs(n_cells_x, n_cells_y)
    /\ new_state = NoArray
    /\ paused = FALSE
    /\ now = 0
    /\ last_tick_time = 0
    /\ running = FALSE
    /\ showing_instructions = FALSE
    /\ pc = "call"
    /\ pending = 0
    /\ event = NoEvent
    /\ exc = "none"
    /\ saved_file = NoFile
    /\ hist_saved = {}
    /\ hist_quit = FALSE

\* new_state = GameLogic.next_generation(game_state, n_cells_x, n_cells_y)
LogicCall ==
    /\ pc = "call"
    /\ LET r == next_generation(game_state, n_cells_x, n_cells_y)
       IN  IF r.err
           THEN Raise("IndexError") /\ UNCHANGED new_state
           ELSE new_state' = r.state /\ pc' = "return" /\ UNCHANGED exc
    /\ UNCHANGED <<cfgvars, game_state, paused, last_tick_time, now, running,
                   showing_instructions, pending, event, saved_file,
                   hist_saved, hist_quit>>

NextLogic == LogicCall

SpecLogic == InitLogic /\ [][NextLogic]_vars

---------------------------------------------------------------------------
(* Claims about GameLogic.next_generation, under SpecLogic *)

\* the 8 offsets of a cell's neighbourhood
Around == { d \in {-1, 0, 1} \X {-1, 0, 1} : d # <<0, 0>> }

\* the number of offsets that lead, with wrap-around, to a live cell of gs
LiveAround(gs, x, y) ==
    Cardinality({ d \in Around :
        gs.cells[<<(x + d[1]) % gs.shape[1], (y + d[2]) % gs.shape[2]>>] = 1 })

\* C1: after next_generation, a cell is live exactly when it was live with
\* 2 or 3 live neighbours or dead with 3, the neighbours being counted in
\* the input grid over the 8 wrapped offsets; the shape is kept.
C1_Rule ==
    pc = "return" =>
        /\ new_state.shape = game_state.shape
        /\ \A p \in DOMAIN game_state.cells :
              LET n == LiveAround(game_state, p[1], p[2])
              IN  (new_state.cells[p] = 1) <=>
                      \/ game_state.cells[p] = 1 /\ n \in {2, 3}
                      \/ game_state.cells[p] = 0 /\ n = 3

\* a call returned on a grid with a birth and a death
C1_Witness ==
    /\ pc = "return"
    /\ \E p, q \in DOMAIN game_state.cells :
          /\ game_state.cells[p] = 0 /\ new_state.cells[p] = 1
          /\ game_state.cells[q] = 1 /\ new_state.cells[q] = 0

VerticalBlinker == WithLive(3, 3, {<<1, 0>>, <<1, 1>>, <<1, 2>>})

\* C2 as stated: the vertical blinker on the 3x3 grid becomes the
\* horizontal blinker.
C2_Original ==
    (pc = "return" /\ game_state = VerticalBlinker) =>
        Live(new_state) = {<<0, 1>>, <<1, 1>>, <<2, 1>>}

\* C2 amended: on the 3x3 torus every cell is a neighbour of every other
\* one, so the three live cells survive (2 neighbours) and the six dead
\* cells are born (3 neighbours): all nine cells are live.
C2_BlinkerFills ==
    (pc = "return" /\ game_state = VerticalBlinker) =>
        /\ new_state.shape = <<3, 3>>
        /\ Live(new_state) = Index(3, 3)

C2_Witness == pc = "return" /\ game_state = VerticalBlinker

\* the grid is one 2x2 block
IsBlock(gs) == gs \in Blocks(gs.shape[1], gs.shape[2])

\* a 2x2 block grid is returned unchanged, each block cell with 3 neighbours
BlockStill ==
    /\ new_state = game_state
    /\ \A p \in Live(game_state) :
          get_neighbor_count(game_state, p[1], p[2], n_cells_x, n_cells_y) = 3

\* C3 as stated: for cols >= 2 and rows >= 2.
C3_Original ==
    (pc = "return" /\ IsBlock(game_state)
        /\ n_cells_x >= 2 /\ n_cells_y >= 2) => BlockStill

\* C3 amended: for cols >= 3 and rows >= 3 a grid that is one 2x2 block is
\* returned unchanged and each block cell has exactly 3 live neighbours
\* (with 2 columns or 2 rows the offsets -1 and +1 wrap to the same cell,
\* which is counted twice).
C3_BlockStill ==
    (pc = "return" /\ IsBlock(game_state)
        /\ n_cells_x >= 3 /\ n_cells_y >= 3) => BlockStill

\* a call returned on a block that wraps around both edges of a 4x3 grid
C3_Witness ==
    /\ pc = "return"
    /\ game_state = WithLive(4, 3, BlockCells(4, 3, 3, 2))
    /\ new_state = game_state

\* C12: whenever the cell (cols-1, rows-1) is live, get_neighbor_count
\* yields at least 1 for the cell (0, 0): the opposite corner is reached
\* through the wrap-around, in every grid of positive dimensions.
C12_WrapCorner ==
    game_state.cells[<<n_cells_x - 1, n_cells_y - 1>>] = 1 =>
        get_neighbor_count(game_state, 0, 0, n_cells_x, n_cells_y) >= 1

\* a call returned on a 5x5 grid whose only live cell is the far corner,
\* which is the one neighbour counted for (0, 0)
C12_Witness ==
    /\ pc = "return"
    /\ n_cells_x = 5 /\ n_cells_y = 5
    /\ Live(game_state) = {<<4, 4>>}
    /\ get_neighbor_count(game_state, 0, 0, n_cells_x, n_cells_y) = 1

\* the count get_neighbor_count yields for every live cell of gs is 0
Isolated(gs) ==
    \A p \in Live(gs) :
        get_neighbor_count(gs, p[1], p[2], gs.shape[1], gs.shape[2]) = 0

\* C13 as stated: in every grid of positive dimensions with exactly one live
\* cell, that cell has 0 live neighbours and next_generation yields the
\* all-dead grid.
C13_Original ==
    (pc = "return" /\ Cardinality(Live(game_state)) = 1) =>
        /\ Isolated(game_state)
        /\ Live(new_state) = {}

\* C13 amended: in every grid with at least 2 columns and 2 rows and exactly
\* one live cell, that cell has 0 live neighbours and next_generation yields
\* the all-dead grid of the same shape.
C13_LoneCellDies ==
    (/\ pc = "return" /\ Cardinality(Live(game_state)) = 1
     /\ n_cells_x >= 2 /\ n_cells_y >= 2) =>
        /\ Isolated(game_state)
        /\ Live(new_state) = {}
        /\ new_state.shape = game_state.shape

\* a call returned on the 2x2 grid with one live cell, where each dead cell
\* reaches the live one through several offsets
C13_Witness ==
    /\ pc = "return"
    /\ game_state = WithLive(2, 2, {<<0, 0>>})
    /\ Live(new_state) = {}

\* gs with the value of cell p negated
Flipped(gs, p) == [gs EXCEPT !.cells[p] = 1 - @]

\* the count for cell p of gs does not depend on the value of p itself
SelfBlind(gs, p) ==
    get_neighbor_count(gs, p[1], p[2], gs.shape[1], gs.shape[2]) =
        get_neighbor_count(Flipped(gs, p), p[1], p[2], gs.shape[1], gs.shape[2])

\* C19 as stated: in every grid of positive dimensions, 1-wide and 1-high
\* ones included, the count for a cell is the same whether the cell itself
\* is live or dead.
C19_Original ==
    \A p \in DOMAIN game_state.cells : SelfBlind(game_state, p)

\* C19 amended: in every grid with at least 2 columns and 2 rows (each one
\* looked at when its call has returned), the count for a cell is the same
\* whether the cell itself is live or dead.
C19_NotOwnNeighbour ==
    (pc = "return" /\ n_cells_x >= 2 /\ n_cells_y >= 2) =>
        \A p \in DOMAIN game_state.cells : SelfBlind(game_state, p)

\* a call returned on the 2x2 grid with every cell live, where (0, 0) counts
\* its three neighbours 8 times in all and itself never
C19_Witness ==
    /\ pc = "return"
    /\ n_cells_x = 2 /\ n_cells_y = 2
    /\ Live(game_state) = DOMAIN game_state.cells
    /\ get_neighbor_count(game_state, 0, 0, 2, 2) = 8
    /\ get_neighbor_count(Flipped(game_state, <<0, 0>>), 0, 0, 2, 2) = 8

---------------------------------------------------------------------------
(* Claims about the running program, under Spec *)

\* the cell a pointer position maps to
CellOf(pos) == <<pos[1] \div cell_width, pos[2] \div cell_height>>

\* C4: when the load key is handled after a save key of this run, the grid
\* right after the load is the grid G of the last save, cell for cell and
\* in shape, whatever toggles, advances and ticks happened in between.
C4_SaveLoad ==
    [][(EvKeyDown("K_l") /\ hist_saved # {}) =>
          /\ exc' = "none"
          /\ game_state' \in hist_saved]_vars

\* the load key was handled after a save key of this run, and the grid is
\* the saved one
C4_Witness ==
    /\ pc = "events"
    /\ event = KeyDown("K_l")
    /\ hist_saved = {game_state}
    /\ Live(game_state) = {<<0, 1>>}

\* C5: a pointer-down that maps to a cell of the grid flips that cell and
\* leaves every other cell, the shape, paused, last_tick_time and the save
\* file as they were.
C5_ToggleFrame ==
    [][\A pos \in Pixels :
          (EvMouseDown(pos) /\ InShape(game_state, CellOf(pos)[1], CellOf(pos)[2])) =>
              /\ game_state'.shape = game_state.shape
              /\ \A q \in DOMAIN game_state.cells :
                    game_state'.cells[q] =
                        IF q = CellOf(pos) THEN 1 - game_state.cells[q]
                        ELSE game_state.cells[q]
              /\ paused' = paused
              /\ last_tick_time' = last_tick_time
              /\ saved_file' = saved_file
              /\ exc' = "none"]_vars

\* a pointer-down was handled, after the instructions, without an exception
C5_Witness ==
    /\ pc = "events"
    /\ event = MouseDown
    /\ exc = "none"
    /\ ~showing_instructions
    /\ Cardinality(Live(game_state)) = 1

\* C6: the program starts running (paused = FALSE), and each handling of
\* the pause key negates paused and changes neither the grid nor
\* last_tick_time; so two presses in succession give back the value paused
\* had before the first, from either state.
C6_PauseTwice ==
    /\ paused = FALSE
    /\ [][EvKeyDown("K_SPACE") =>
             /\ paused' = ~paused
             /\ game_state' = game_state
             /\ last_tick_time' = last_tick_time]_vars

\* the pause key was handled twice in one batch: running again
C6_Witness ==
    /\ pc = "events"
    /\ event = KeyDown("K_SPACE")
    /\ pending = MaxBatch - 2
    /\ paused = FALSE
    /\ ~showing_instructions
    /\ now = 0

\* C7: the end of a frame advances the generation only if paused is false
\* and now - last_tick_time >= tick_interval, and then last_tick_time
\* becomes the clock value read; with paused true it changes neither the
\* grid nor last_tick_time.
C7_TickOnlyWhenDue ==
    [][pc = "tick" =>
          /\ (game_state' # game_state \/ last_tick_time' # last_tick_time) =>
                /\ ~paused
                /\ now - last_tick_time >= tick_interval
                /\ last_tick_time' = now
                /\ game_state' =
                      next_generation(game_state, n_cells_x, n_cells_y).state
          /\ paused =>
                /\ game_state' = game_state
                /\ last_tick_time' = last_tick_time]_vars

\* an automatic tick has fired, more than tick_interval after the start,
\* and the next frame has begun
C7_Witness ==
    /\ last_tick_time > tick_interval
    /\ pc = "events"
    /\ ~paused
    /\ exc = "none"

\* C8 as stated, once the instructions are dismissed: a pointer-down
\* inside the button advances the generation once and toggles no cell; a
\* pointer-down outside it, on a cell of the grid, toggles that cell and
\* does not advance the generation.
C8_Original ==
    [][\A pos \in Pixels :
          (/\ ~showing_instructions
           /\ EvMouseDown(pos)
           /\ InShape(game_state, CellOf(pos)[1], CellOf(pos)[2])) =>
              IF collidepoint(pos)
              THEN game_state' =
                      next_generation(game_state, n_cells_x, n_cells_y).state
              ELSE game_state' =
                      [game_state EXCEPT !.cells[CellOf(pos)] = Not(@)]]_vars

\* C9 as stated: while the instructions are showing, handling an event
\* changes neither the grid nor paused nor the save file, and only the
\* Return key ends the showing of the instructions.
C9_Original ==
    [][(showing_instructions /\ pc \in {"instr", "events"} /\ pending > 0) =>
          /\ game_state' = game_state
          /\ paused' = paused
          /\ saved_file' = saved_file
          /\ exc' = "none"
          /\ (~showing_instructions' => event' = KeyDown("K_RETURN"))]_vars

\* C10 as stated: a frame in which a QUIT event was iterated is the last:
\* the loop is left at its end.
C10_Original ==
    [][(pc = "tick" /\ hist_quit) => pc' \in {"done", "crashed"}]_vars

\* the array has the shape the program was configured with
ConfiguredShape == game_state.shape = <<n_cells_x, n_cells_y>>

\* C11 as stated: handling the load key when no save file exists leaves
\* the grid unchanged and the loop running.
C11_Original ==
    [][(~showing_instructions /\ EvKeyDown("K_l") /\ ~saved_file.exists) =>
          /\ game_state' = game_state
          /\ pc' = "events"
          /\ exc' = "none"]_vars

\* C14 as stated: a pointer-down anywhere in the window maps to a cell
\* index inside the configured grid and does not abort the loop.
C14_Original ==
    [][\A pos \in Pixels :
          (~showing_instructions /\ ConfiguredShape /\ EvMouseDown(pos)) =>
              /\ CellOf(pos)[1] \in 0 .. n_cells_x - 1
              /\ CellOf(pos)[2] \in 0 .. n_cells_y - 1
              /\ exc' = "none"]_vars

\* C15 as stated: the grid has the configured dimensions at the start and
\* every step keeps them, also a load of a file an earlier run wrote (the
\* steps taken while the instructions show are left to C9).
C15_Original ==
    /\ ConfiguredShape
    /\ [][(~showing_instructions /\ ConfiguredShape) => ConfiguredShape']_vars

\* C16 as stated: whenever the clock check is reached with paused false
\* and now - last_tick_time >= tick_interval, the tick fires: the
\* generation is advanced and last_tick_time is set to now.
C16_Original ==
    [][(/\ pc = "tick" /\ running /\ ~paused /\ ConfiguredShape
        /\ now - last_tick_time >= tick_interval) =>
          /\ last_tick_time' = now
          /\ game_state' =
                next_generation(game_state, n_cells_x, n_cells_y).state]_vars

\* C17 as stated: a pointer-up inside the button replaces the grid by its
\* next generation and leaves last_tick_time and paused unchanged, whether
\* the simulation is running or paused.
C17_Original ==
    [][\A pos \in Pixels :
          (~showing_instructions /\ collidepoint(pos) /\ EvMouseUp(pos)) =>
              /\ game_state' =
                    next_generation(game_state, n_cells_x, n_cells_y).state
              /\ exc' = "none"
              /\ last_tick_time' = last_tick_time
              /\ paused' = paused]_vars

\* C18 as stated: once the instructions are dismissed, every event of a
\* poll has been iterated when the automatic tick check is reached.
C18_Original ==
    (~showing_instructions /\ pc = "tick") => pending = 0

---------------------------------------------------------------------------
(* Claims about the construction of GameOfLife, under SpecSingleton *)

\* C20: every call GameOfLife(...) after the first returns the one instance
\* and leaves the grid, the dimensions, paused, tick_interval and
\* last_tick_time as they were, whatever its arguments.
C20_Singleton ==
    [][\A args \in Arguments :
          (instance # 0 /\ Construct(args)) =>
              /\ call'.result = instance
              /\ instance' = instance
              /\ game_state' = game_state
              /\ width' = width /\ height' = height
              /\ n_cells_x' = n_cells_x /\ n_cells_y' = n_cells_y
              /\ paused' = paused
              /\ tick_interval' = tick_interval
              /\ last_tick_time' = last_tick_time]_vars

\* a later call returned, with other dimensions and another interval as
\* arguments, after the instance had been paused, a cell toggled and the
\* clock advanced
C20_Witness ==
    /\ call.n >= 2 /\ call.result = instance
    /\ call.args.n_cells_x # n_cells_x
    /\ call.args.tick_interval # tick_interval
    /\ paused
    /\ now > last_tick_time
    /\ Live(game_state) # {}
    /\ pc = "main"

=============================================================================
